---- MODULE Spec2Model ----
(***************************************************************************)
(* ID3 decision trees of golearn (trees/id3.go): induction (InferID3Tree), *)
(* prediction (DecisionTreeNode.Predict) and reduced-error pruning         *)
(* (DecisionTreeNode.Prune).                                               *)
(*                                                                         *)
(* A tree is kept as a map from paths to nodes: the root is the empty      *)
(* path, and the child that node p keeps under key k in its Children map   *)
(* is the node at path Append(p, k).  A Go map iterates in an order the    *)
(* language leaves unspecified and that changes from one range statement   *)
(* to the next; every loop over a map whose result depends on that order   *)
(* is modelled as a choice over all the results an order can give.         *)
(***************************************************************************)
EXTENDS Naturals, Integers, Sequences, FiniteSets

\* ------------------------------------------------------------------------
\* Bounds of the model
\* ------------------------------------------------------------------------

\* Most rows of a training dataset handed to InferID3Tree.
MaxTrainRows == 2

\* Most rows of a dataset handed to Prune or to Predict.
MaxEvalRows == 1

\* ------------------------------------------------------------------------
\* Program constants
\* ------------------------------------------------------------------------

LeafNode == 1

RuleNode == 2

\* ------------------------------------------------------------------------
\* base.Attribute and base.Instances (package base of the repository)
\* ------------------------------------------------------------------------

\* The nil attribute (a nil base.Attribute interface value).
NoAttr == "nil"

\* The categorical attributes of the model and the strings of their values;
\* a stored (system) value of an attribute is an index into this list.
AttrValues ==
  [A |-> <<"x", "y", "z">>, B |-> <<"p", "q">>, D |-> <<"d">>, C |-> <<"0", "1">>]

\* Every string that occurs as a value, in lexicographic (Go string) order.
StringOrder == <<"0", "1", "d", "p", "q", "x", "y", "z">>

StrRank(s) == CHOOSE i \in 1..Len(StringOrder) : StringOrder[i] = s

\* Go's c > v on strings.
StrGreater(c, v) == StrRank(c) > StrRank(v)

\* The attribute lists (headers) of the datasets; the class attribute is the
\* last column.
Schemas == {<<"C">>, <<"A", "C">>, <<"A", "B", "D", "C">>}

GetStringFromSysVal(at, v) == AttrValues[at][v]

GetSysValFromString(at, s) ==
  CHOOSE v \in 1..Len(AttrValues[at]) : AttrValues[at][v] = s

\* Instances: attrs is the header, rows the rows, each a sequence of system
\* values aligned with the header.
NewInstances(attrs, rows) == [attrs |-> attrs, rows |-> rows]

GetAttributeCount(inst) == Len(inst.attrs)

GetClassAttr(inst) == inst.attrs[Len(inst.attrs)]

\* The column of attribute at (1-based), or -1 when the header lacks it.
GetAttrIndex(inst, at) ==
  IF \E j \in 1..Len(inst.attrs) : inst.attrs[j] = at
  THEN CHOOSE j \in 1..Len(inst.attrs) : inst.attrs[j] = at
  ELSE -1

\* The class string of a row.
GetClass(inst, row) ==
  GetStringFromSysVal(GetClassAttr(inst), row[Len(inst.attrs)])

\* The number of the rows whose class string is label.
RECURSIVE CountRows(_, _, _)
CountRows(inst, rows, label) ==
  IF rows = <<>> THEN 0
  ELSE (IF GetClass(inst, Head(rows)) = label THEN 1 ELSE 0)
       + CountRows(inst, Tail(rows), label)

\* The class histogram: a map from the class strings that occur to counts.
CountClassValues(inst) ==
  LET seen == {GetClass(inst, inst.rows[i]) : i \in 1..Len(inst.rows)}
  IN [c \in seen |-> CountRows(inst, inst.rows, c)]

\* A sequence without its j-th element.
DropColumn(s, j) == [i \in 1..(Len(s) - 1) |-> IF i < j THEN s[i] ELSE s[i + 1]]

RECURSIVE SelectRows(_, _, _)
SelectRows(rows, j, v) ==
  IF rows = <<>> THEN <<>>
  ELSE IF Head(rows)[j] = v
       THEN <<DropColumn(Head(rows), j)>> \o SelectRows(Tail(rows), j, v)
       ELSE SelectRows(Tail(rows), j, v)

\* The rows grouped by the string of their value of attribute at: one group
\* for each value that occurs, in row order, without the column of at.
DecomposeOnAttributeValues(inst, at) ==
  LET j == GetAttrIndex(inst, at)
      keys == {GetStringFromSysVal(at, inst.rows[i][j]) : i \in 1..Len(inst.rows)}
  IN [k \in keys |->
        NewInstances(DropColumn(inst.attrs, j),
                     SelectRows(inst.rows, j, GetSysValFromString(at, k)))]

\* ------------------------------------------------------------------------
\* The datasets the model draws
\* ------------------------------------------------------------------------

RowsOf(attrs) ==
  {r \in [1..Len(attrs) -> 1..3] :
     \A j \in 1..Len(attrs) : r[j] <= Len(AttrValues[attrs[j]])}

RECURSIVE RowCode(_)
RowCode(r) == IF r = <<>> THEN 0 ELSE Head(r) + 4 * RowCode(Tail(r))

\* The datasets over a header with n rows.  No operation of the tree code
\* depends on the order of the rows (predictions keep it), so one order
\* stands for each multiset of rows.
DatasetsOfSize(attrs, n) ==
  {NewInstances(attrs, s) :
     s \in {t \in [1..n -> RowsOf(attrs)] :
              \A i \in 1..(n - 1) : RowCode(t[i]) <= RowCode(t[i + 1])}}

Datasets(attrs, most) == UNION {DatasetsOfSize(attrs, n) : n \in 1..most}

\* Scenario A of the specification: (A=x,C=0),(A=x,C=0),(A=y,C=1),(A=y,C=1).
ScenarioA ==
  NewInstances(<<"A", "C">>, << <<1, 1>>, <<1, 1>>, <<2, 2>>, <<2, 2>> >>)

\* Three rows whose tree, split on A and then on B, has a subtree under x
\* beside a Leaf under y: (x,p,d,0), (x,q,d,1), (y,p,d,1).
TwoLevelData ==
  NewInstances(<<"A", "B", "D", "C">>,
               << <<1, 1, 1, 1>>, <<1, 2, 1, 2>>, <<2, 1, 1, 2>> >>)

TrainSets ==
  UNION {Datasets(attrs, MaxTrainRows) : attrs \in Schemas}
    \cup {ScenarioA, TwoLevelData}

\* ------------------------------------------------------------------------
\* State
\* ------------------------------------------------------------------------

VARIABLES
  phase,        \* "infer", "fitted", "pruned", "repruned" or "predicted"
  train,        \* the Instances InferID3Tree was called on
  calls,        \* the pending InferID3Tree calls (a stack): [path, from]
  nodes,        \* the tree: path -> DecisionTreeNode
  inducedFrom,  \* path -> the Instances the node at the path was induced from
  consulted,    \* the paths whose call asked the RuleGenerator
  orig,         \* the tree as it was before the latest Prune
  using,        \* the Instances the latest Prune was given
  pruneLog,     \* path -> the accuracies the latest Prune measured there
  what,         \* the Instances the latest Predict was given
  predictions   \* the Instances the latest Predict returned

vars ==
  <<phase, train, calls, nodes, inducedFrom, consulted, orig, using, pruneLog,
    what, predictions>>

EmptyMap == [x \in {} |-> x]

\* A nil map[string]*DecisionTreeNode, and a made one with the given keys.
NilChildren == [nil |-> TRUE, keys |-> {}]

MakeChildren(keys) == [nil |-> FALSE, keys |-> keys]

Init ==
  /\ phase = "infer"
  /\ train \in TrainSets
  /\ calls = <<[path |-> <<>>, from |-> train]>>
  /\ nodes = EmptyMap
  /\ inducedFrom = EmptyMap
  /\ consulted = {}
  /\ orig = EmptyMap
  /\ using = NewInstances(<<>>, <<>>)
  /\ pruneLog = EmptyMap
  /\ what = NewInstances(<<>>, <<>>)
  /\ predictions = NewInstances(<<>>, <<>>)

\* f with key k set to v.
Put(f, k, v) == [x \in (DOMAIN f) \cup {k} |-> IF x = k THEN v ELSE f[x]]

\* The orders in which a range statement can visit the keys of a map.
Orderings(keys) ==
  {o \in [1..Cardinality(keys) -> keys] :
     \A i, j \in 1..Cardinality(keys) : i # j => o[i] # o[j]}

\* ------------------------------------------------------------------------
\* InferID3Tree
\* ------------------------------------------------------------------------

\* The RuleGenerator interface: nil, or an attribute of the Instances it is
\* given other than their class attribute.
GenerateSplitAttribute(from) ==
  {NoAttr} \cup {from.attrs[j] : j \in 1..(Len(from.attrs) - 1)}

DecisionTreeNode(type, children, splitAttr, classDist, class, classAttr) ==
  [Type |-> type, Children |-> children, SplitAttr |-> splitAttr,
   ClassDist |-> classDist, Class |-> class, ClassAttr |-> classAttr]

\* len(classes) == 0 for len(classes) == 1.
OnlyOneClassMutant(classes) == Cardinality(DOMAIN classes) = 0

\* len(classes) == 1
OnlyOneClass(classes) == Cardinality(DOMAIN classes) = 1

\* The loop that takes the only key of the histogram.
OnlyClass(classes) == CHOOSE c \in DOMAIN classes : TRUE

\* The values maxClass can end with: the loop keeps the first class, in
\* the map's iteration order, whose count exceeds every count before it,
\* which is the first of the classes with the highest count.
MajorityClass(classes) ==
  {c \in DOMAIN classes : \A o \in DOMAIN classes : classes[o] <= classes[c]}

\* The test for "no more Attributes left to split on".
NoAttributesLeft(from) == GetAttributeCount(from) = 2

\* The recursive call is made on its caller's Instances.
NewInstancesMutant(from, splitInstances, k) == from

\* newInstances, the Instances of the recursive call for key k.
NewInstancesOf(from, splitInstances, k) == splitInstances[k]

\* Every recursive call is made with the group of the first key.
ChildCallsMutant(path, from, splitInstances, order) ==
  [i \in 1..Len(order) |->
     [path |-> Append(path, order[i]),
      from |-> NewInstancesOf(from, splitInstances, order[1])]]

\* The recursive calls of the loop over splitInstances, in the order the
\* loop makes them: one for each group, on that group's Instances.
ChildCalls(path, from, splitInstances, order) ==
  [i \in 1..Len(order) |->
     [path |-> Append(path, order[i]),
      from |-> NewInstancesOf(from, splitInstances, order[i])]]

\* A call returns its node: the node is at its path, the calls are left.
Return(path, node, left) ==
  /\ nodes' = Put(nodes, path, node)
  /\ calls' = left
  /\ phase' = IF left = <<>> THEN "fitted" ELSE "infer"

\* One call of InferID3Tree, the one on top of the stack.  The node of a
\* call that recurses is put at its path with the keys of its Children at
\* once; the children themselves appear as their calls return, and the tree
\* is whole when the stack is empty.
InferID3Tree ==
  /\ phase = "infer"
  /\ calls # <<>>
  /\ LET path == Head(calls).path
         from == Head(calls).from
         classes == CountClassValues(from)
         classAttr == GetClassAttr(from)
     IN /\ inducedFrom' = Put(inducedFrom, path, from)
        /\ IF OnlyOneClass(classes)
           THEN /\ Return(path,
                          DecisionTreeNode(LeafNode, NilChildren, NoAttr, classes,
                                           OnlyClass(classes), classAttr),
                          Tail(calls))
                /\ UNCHANGED consulted
           ELSE \E maxClass \in MajorityClass(classes) :
                  IF NoAttributesLeft(from)
                  THEN /\ Return(path,
                                 DecisionTreeNode(LeafNode, NilChildren, NoAttr,
                                                  classes, maxClass, classAttr),
                                 Tail(calls))
                       /\ UNCHANGED consulted
                  ELSE \E splitOnAttribute \in GenerateSplitAttribute(from) :
                         /\ consulted' = consulted \cup {path}
                         /\ IF splitOnAttribute = NoAttr
                            THEN Return(path,
                                        DecisionTreeNode(RuleNode, NilChildren, NoAttr,
                                                         classes, maxClass, classAttr),
                                        Tail(calls))
                            ELSE LET splitInstances ==
                                       DecomposeOnAttributeValues(from, splitOnAttribute)
                                 IN \E order \in Orderings(DOMAIN splitInstances) :
                                      Return(path,
                                             DecisionTreeNode(
                                               RuleNode,
                                               MakeChildren(DOMAIN splitInstances),
                                               splitOnAttribute, classes, maxClass,
                                               classAttr),
                                             ChildCalls(path, from, splitInstances, order)
                                               \o Tail(calls))
  /\ UNCHANGED <<train, orig, using, pruneLog, what, predictions>>

\* ------------------------------------------------------------------------
\* DecisionTreeNode.Predict
\* ------------------------------------------------------------------------

\* The child the loop over cur.Children ends on when no key is classVar:
\* the first key, in the map's iteration order, that is greater than
\* classVar, and the last key of the iteration when none is.
BestChild(keys, classVar) ==
  IF \E c \in keys : StrGreater(c, classVar)
  THEN {c \in keys : StrGreater(c, classVar)}
  ELSE keys

\* The labels the walk of one row can end with, from node cur on.
RECURSIVE Walk(_, _, _, _)
Walk(ns, cur, inst, row) ==
  IF ns[cur].Children.nil
  THEN {ns[cur].Class}
  ELSE LET at == ns[cur].SplitAttr
           j == GetAttrIndex(inst, at)
       IN IF j = -1
          THEN {ns[cur].Class}
          ELSE LET classVar == GetStringFromSysVal(at, row[j])
               IN IF classVar \in ns[cur].Children.keys
                  THEN Walk(ns, Append(cur, classVar), inst, row)
                  ELSE UNION {Walk(ns, Append(cur, bestChild), inst, row) :
                                bestChild \in BestChild(ns[cur].Children.keys, classVar)}

\* The rows of the predictions for the given rows: SetAttrStr stores the
\* label of each row as a system value of the class attribute.
RECURSIVE PredictRows(_, _, _, _)
PredictRows(ns, d, inst, rows) ==
  IF rows = <<>> THEN {<<>>}
  ELSE {<< <<GetSysValFromString(GetClassAttr(inst), label)>> >> \o rest :
          label \in Walk(ns, d, inst, Head(rows)),
          rest \in PredictRows(ns, d, inst, Tail(rows))}

\* The Instances d.Predict(inst) can return, d the node at path d of ns.
Predict(ns, d, inst) ==
  {NewInstances(<<GetClassAttr(inst)>>, rows) :
     rows \in PredictRows(ns, d, inst, inst.rows)}

\* ------------------------------------------------------------------------
\* Package evaluation, and computeAccuracy
\* ------------------------------------------------------------------------

\* The confusion matrix, kept as the pairs it counts: for each row its
\* reference class and its predicted class.
GetConfusionMatrix(ref, gen) ==
  [i \in 1..Len(ref.rows) |->
     <<GetClass(ref, ref.rows[i]), GetClass(gen, gen.rows[i])>>]

\* The accuracy, correct / total, kept as the two numbers.
GetAccuracy(cf) ==
  [correct |-> Cardinality({i \in DOMAIN cf : cf[i][1] = cf[i][2]}),
   total |-> Len(cf)]

\* a < b on two accuracies.
AccuracyLess(a, b) == a.correct * b.total < b.correct * a.total

computeAccuracy(preds, from) == GetAccuracy(GetConfusionMatrix(from, preds))

\* ------------------------------------------------------------------------
\* DecisionTreeNode.Prune
\* ------------------------------------------------------------------------

IsPrefix(d, q) == Len(d) <= Len(q) /\ SubSeq(q, 1, Len(d)) = d

\* d.Children = nil: the nodes below d are no longer part of the tree.
Detach(ns, d) ==
  [q \in {q \in DOMAIN ns : q = d \/ ~IsPrefix(d, q)} |->
     IF q = d THEN [ns[q] EXCEPT !.Children = NilChildren] ELSE ns[q]]

\* The test of sub[k] against nil is left out.
SkipChildMutant(sub, k) == FALSE

\* The child under key k is not pruned: no row has k.
SkipChild(sub, k) == k \notin DOMAIN sub

\* sub[k], the Instances the child under key k is pruned with.  A key that
\* sub lacks reads as nil, which the test before the call keeps from being
\* used; Instances without rows stand for it here.
SubFor(inst, at, sub, k) ==
  IF k \in DOMAIN sub THEN sub[k]
  ELSE NewInstances(DropColumn(inst.attrs, GetAttrIndex(inst, at)), <<>>)

\* newAccuracy <= baselineAccuracy for newAccuracy < baselineAccuracy.
RestoreChildrenMutant(newAccuracy, baselineAccuracy) ==
  ~AccuracyLess(baselineAccuracy, newAccuracy)

\* The children are restored.
RestoreChildren(newAccuracy, baselineAccuracy) ==
  AccuracyLess(newAccuracy, baselineAccuracy)

\* The end of Prune, the children of d pruned: the baseline accuracy, the
\* accuracy without the children, and the children kept removed or restored.
\* st is [nodes, log]; log keeps what each visited node measured and did.
Collapse(st, d, inst) ==
  LET removed == Detach(st.nodes, d)
  IN {[nodes |-> IF RestoreChildren(newAccuracy, baselineAccuracy)
                 THEN st.nodes ELSE removed,
       log |-> Put(st.log, d,
                   [baseline |-> baselineAccuracy, new |-> newAccuracy,
                    removed |-> ~RestoreChildren(newAccuracy, baselineAccuracy),
                    using |-> inst])] :
        baselineAccuracy \in {computeAccuracy(p, inst) : p \in Predict(st.nodes, d, inst)},
        newAccuracy \in {computeAccuracy(p, inst) : p \in Predict(removed, d, inst)}}

\* The results d.Prune(inst) can have.  The loop over d.Children prunes
\* disjoint subtrees, so the order of its iteration does not show.
RECURSIVE PruneNode(_, _, _)
RECURSIVE PruneChildren(_, _, _, _, _)
PruneChildren(st, d, inst, sub, keys) ==
  IF keys = {} THEN {st}
  ELSE LET k == CHOOSE k \in keys : TRUE
           pruned == IF SkipChild(sub, k) THEN {st}
                     ELSE PruneNode(st, Append(d, k),
                                    SubFor(inst, st.nodes[d].SplitAttr, sub, k))
       IN UNION {PruneChildren(st1, d, inst, sub, keys \ {k}) : st1 \in pruned}

PruneNode(st, d, inst) ==
  IF st.nodes[d].Children.nil THEN {st}
  ELSE IF st.nodes[d].SplitAttr = NoAttr THEN {st}
  ELSE LET sub == DecomposeOnAttributeValues(inst, st.nodes[d].SplitAttr)
       IN UNION {Collapse(st1, d, inst) :
                   st1 \in PruneChildren(st, d, inst, sub, st.nodes[d].Children.keys)}

\* The datasets Prune is called with: those of the training header, as
\* Fit takes both from one dataset.
PruneSets == Datasets(train.attrs, MaxEvalRows)

\* root.Prune(V)
Prune ==
  /\ phase = "fitted"
  /\ \E V \in PruneSets :
       \E out \in PruneNode([nodes |-> nodes, log |-> EmptyMap], <<>>, V) :
         /\ nodes' = out.nodes
         /\ pruneLog' = out.log
         /\ using' = V
  /\ orig' = nodes
  /\ phase' = "pruned"
  /\ UNCHANGED <<train, calls, inducedFrom, consulted, what, predictions>>

\* root.Prune(V) once more, with the same V.
PruneAgain ==
  /\ phase = "pruned"
  /\ \E out \in PruneNode([nodes |-> nodes, log |-> EmptyMap], <<>>, using) :
       /\ nodes' = out.nodes
       /\ pruneLog' = out.log
  /\ orig' = nodes
  /\ phase' = "repruned"
  /\ UNCHANGED <<train, calls, inducedFrom, consulted, using, what, predictions>>

\* The datasets Predict is called with.
PredictSets == UNION {Datasets(attrs, MaxEvalRows) : attrs \in Schemas}

\* root.Predict(what)
PredictTree ==
  /\ phase = "fitted"
  /\ \E w \in PredictSets :
       /\ what' = w
       /\ predictions' \in Predict(nodes, <<>>, w)
  /\ phase' = "predicted"
  /\ UNCHANGED <<train, calls, nodes, inducedFrom, consulted, orig, using, pruneLog>>

Next == InferID3Tree \/ Prune \/ PruneAgain \/ PredictTree

Spec == Init /\ [][Next]_vars

\* Induction alone, and with the fairness of a call that runs to its end:
\* the computation is synchronous, a pending call is always made.
NextInfer == InferID3Tree

SpecInfer == Init /\ [][NextInfer]_vars

FairInfer == SpecInfer /\ WF_vars(InferID3Tree)

\* Fit without pruning, then Predict.
NextPredict == InferID3Tree \/ PredictTree

SpecPredict == Init /\ [][NextPredict]_vars

\* Fit with pruning.
NextPrune == InferID3Tree \/ Prune

SpecPrune == Init /\ [][NextPrune]_vars

\* ------------------------------------------------------------------------
\* What the properties speak of
\* ------------------------------------------------------------------------

\* The rows of inst whose value of attribute at has string k, without the
\* column of at.
RowsWithValue(inst, at, k) ==
  LET j == CHOOSE j \in 1..Len(inst.attrs) : inst.attrs[j] = at
      Has(r) == AttrValues[at][r[j]] = k
      kept == SelectSeq(inst.rows, Has)
  IN [attrs |-> DropColumn(inst.attrs, j),
      rows |-> [i \in 1..Len(kept) |-> DropColumn(kept[i], j)]]

\* The rows of inst that the splits of tree ns route to the node at path
\* prefix \o rest, inst being the rows at the node at prefix.
RECURSIVE Routed(_, _, _, _)
Routed(ns, prefix, inst, rest) ==
  IF rest = <<>> THEN inst
  ELSE Routed(ns, Append(prefix, Head(rest)),
              RowsWithValue(inst, ns[prefix].SplitAttr, Head(rest)), Tail(rest))

\* The strings of attribute at among the rows of inst.
ValuesOf(inst, at) ==
  LET j == CHOOSE j \in 1..Len(inst.attrs) : inst.attrs[j] = at
  IN {AttrValues[at][inst.rows[i][j]] : i \in 1..Len(inst.rows)}

AttrValuesOfClass == {AttrValues.C[v] : v \in 1..Len(AttrValues.C)}

\* The class strings of the rows of inst, and how many rows have class c.
ClassOfRow(inst, i) == AttrValues[inst.attrs[Len(inst.attrs)]][inst.rows[i][Len(inst.attrs)]]

RowsOfClass(inst, c) == Cardinality({i \in 1..Len(inst.rows) : ClassOfRow(inst, i) = c})

ClassesOf(inst) == {ClassOfRow(inst, i) : i \in 1..Len(inst.rows)}

\* The numbers of rows of inst that a Predict of the tree ns can label right.
CorrectCounts(ns, inst) ==
  {Cardinality({i \in 1..Len(inst.rows) :
                  ClassOfRow(inst, i) = ClassOfRow(p, i)}) : p \in Predict(ns, <<>>, inst)}

HasChildren(ns, d) == ~ns[d].Children.nil

\* The node, of those the walk of the row goes through along matching
\* children, whose Children have no key for the row's value (none or one).
RECURSIVE UnseenNodes(_, _, _, _)
UnseenNodes(ns, cur, inst, row) ==
  IF ~HasChildren(ns, cur) \/ ~(\E j \in 1..Len(inst.attrs) : inst.attrs[j] = ns[cur].SplitAttr)
  THEN {}
  ELSE LET at == ns[cur].SplitAttr
           j == CHOOSE j \in 1..Len(inst.attrs) : inst.attrs[j] = at
           v == AttrValues[at][row[j]]
       IN IF v \in ns[cur].Children.keys
          THEN UnseenNodes(ns, Append(cur, v), inst, row)
          ELSE {cur}

\* ------------------------------------------------------------------------
\* C1
\* ------------------------------------------------------------------------

\* C1: when a row reaches a Rule node with children that has no child for
\* the row's value of the split attribute, the label Predict emits for the
\* row is that node's own Class.
C1_UnseenValueGetsNodeClass ==
  phase = "predicted" =>
    \A i \in 1..Len(what.rows) :
      \A d \in UnseenNodes(nodes, <<>>, what, what.rows[i]) :
        ClassOfRow(predictions, i) = nodes[d].Class

\* ------------------------------------------------------------------------
\* C2
\* ------------------------------------------------------------------------

\* The tree of Scenario A: a Rule on A with the Leaves x -> 0 and y -> 1.
ScenarioATree ==
  /\ DOMAIN nodes = {<<>>, <<"x">>, <<"y">>}
  /\ nodes[<<>>].Type = RuleNode
  /\ nodes[<<>>].SplitAttr = "A"
  /\ nodes[<<>>].Children = MakeChildren({"x", "y"})
  /\ nodes[<<"x">>].Type = LeafNode /\ nodes[<<"x">>].Class = "0"
  /\ nodes[<<"y">>].Type = LeafNode /\ nodes[<<"y">>].Class = "1"

\* C2: a Leaf for lack of attributes (a Leaf over more than one class) is
\* returned only for Instances that have no attribute but the class
\* attribute; and, the generator choosing A, Scenario A gives the Rule on A
\* with the Leaves x -> 0 and y -> 1, which predicts 0 for a row with A = x.
C2_LeafOnlyWithoutAttributes ==
  phase # "infer" =>
    /\ \A p \in DOMAIN nodes :
         (nodes[p].Type = LeafNode /\ Cardinality(ClassesOf(inducedFrom[p])) > 1)
           => GetAttributeCount(inducedFrom[p]) = 1
    /\ train = ScenarioA =>
         /\ ScenarioATree
         /\ Walk(nodes, <<>>, NewInstances(<<"A", "C">>, << <<1, 2>> >>), <<1, 2>>) = {"0"}

\* ------------------------------------------------------------------------
\* C3
\* ------------------------------------------------------------------------

\* C3: the Class of a node over more than one class is a class with the
\* highest count, and the lexicographically smallest of those.
C3_MajoritySmallestOfTied ==
  phase # "infer" =>
    \A p \in DOMAIN nodes :
      Cardinality(ClassesOf(inducedFrom[p])) > 1 =>
        /\ \A c \in ClassesOf(inducedFrom[p]) :
             RowsOfClass(inducedFrom[p], c) <= RowsOfClass(inducedFrom[p], nodes[p].Class)
        /\ \A c \in ClassesOf(inducedFrom[p]) :
             RowsOfClass(inducedFrom[p], c) = RowsOfClass(inducedFrom[p], nodes[p].Class)
               => ~StrGreater(nodes[p].Class, c)

\* ------------------------------------------------------------------------
\* C6
\* ------------------------------------------------------------------------

RECURSIVE SumOf(_, _)
SumOf(f, keys) ==
  IF keys = {} THEN 0
  ELSE LET k == CHOOSE k \in keys : TRUE IN f[k] + SumOf(f, keys \ {k})

SumOfCounts(hist) == SumOf(hist, DOMAIN hist)

\* C6: a node induced from rows that all have one class c is a Leaf without
\* split attribute and children, its Class is c, its histogram counts sum
\* to the number of the rows, and its call did not ask the RuleGenerator.
C6_SingleClassLeaf ==
  phase # "infer" =>
    \A p \in DOMAIN nodes :
      \A c \in ClassesOf(inducedFrom[p]) :
        ClassesOf(inducedFrom[p]) = {c} =>
          /\ nodes[p].Type = LeafNode
          /\ nodes[p].SplitAttr = NoAttr
          /\ nodes[p].Children = NilChildren
          /\ nodes[p].Class = c
          /\ SumOfCounts(nodes[p].ClassDist) = Len(inducedFrom[p].rows)
          /\ p \notin consulted

\* A whole dataset of one class with several rows and attributes to split
\* on has been induced.
C6_Witness ==
  /\ phase = "fitted"
  /\ Len(train.rows) >= 2
  /\ GetAttributeCount(train) = 4
  /\ Cardinality(ClassesOf(train)) = 1
  /\ nodes[<<>>].Type = LeafNode

\* ------------------------------------------------------------------------
\* C7
\* ------------------------------------------------------------------------

\* C7: the Children keys of a node with a split attribute are the strings
\* of that attribute among the rows the node was induced from, and the
\* child under key v is induced from those of the rows whose value is v.
C7_ChildKeysAreObservedValues ==
  phase # "infer" =>
    /\ inducedFrom[<<>>] = train
    /\ DOMAIN inducedFrom = DOMAIN nodes
    /\ \A p \in DOMAIN nodes :
         nodes[p].SplitAttr # NoAttr =>
           /\ ~nodes[p].Children.nil
           /\ nodes[p].Children.keys = ValuesOf(inducedFrom[p], nodes[p].SplitAttr)
           /\ \A v \in nodes[p].Children.keys :
                /\ Append(p, v) \in DOMAIN nodes
                /\ inducedFrom[Append(p, v)]
                     = RowsWithValue(inducedFrom[p], nodes[p].SplitAttr, v)
                /\ \A c \in AttrValuesOfClass :
                     RowsOfClass(inducedFrom[Append(p, v)], c)
                       = (IF c \in DOMAIN nodes[Append(p, v)].ClassDist
                          THEN nodes[Append(p, v)].ClassDist[c] ELSE 0)

\* A node has split its rows into several groups, one of several rows, and
\* the attribute has a value that no row of the node has.
C7_Witness ==
  /\ phase = "fitted"
  /\ \E p \in DOMAIN nodes :
       /\ nodes[p].SplitAttr = "A"
       /\ Cardinality(nodes[p].Children.keys) = 2
       /\ \E v \in nodes[p].Children.keys : Len(inducedFrom[Append(p, v)].rows) >= 2

\* ------------------------------------------------------------------------
\* C9
\* ------------------------------------------------------------------------

\* Every pending call below the root is on Instances of fewer attributes
\* than those of the call that made it.
CallsShrink ==
  \A i \in 1..Len(calls) :
    LET path == calls[i].path
    IN path # <<>> =>
         GetAttributeCount(calls[i].from)
           < GetAttributeCount(inducedFrom[SubSeq(path, 1, Len(path) - 1)])

C4_PruneNeverDegrades ==
  phase = "pruned" =>
    \A after \in CorrectCounts(nodes, using) :
      \A before \in CorrectCounts(orig, using) : after >= before

\* ------------------------------------------------------------------------
\* C5
\* ------------------------------------------------------------------------

\* The paths of the nodes of tree ns that Prune(V) visits and that have
\* children and a split attribute: the root, and the children under a key
\* that some row routed to their parent has.
Visited(ns, V) ==
  {d \in DOMAIN ns :
     /\ HasChildren(ns, d)
     /\ ns[d].SplitAttr # NoAttr
     /\ \A n \in 1..Len(d) :
          SubSeq(d, 1, n) \in DOMAIN ns
            /\ Len(Routed(ns, <<>>, V, SubSeq(d, 1, n)).rows) > 0}

\* The accuracies a Predict from node d of the tree before Prune can have
\* on inst once the children of d have been pruned.
BaselineAccuracies(d, inst) ==
  UNION {{computeAccuracy(p, inst) : p \in Predict(st.nodes, d, inst)} :
           st \in PruneChildren([nodes |-> orig, log |-> EmptyMap], d, inst,
                                DecomposeOnAttributeValues(inst, orig[d].SplitAttr),
                                orig[d].Children.keys)}

Accuracies(ns, d, V) ==
  LET inst == Routed(ns, <<>>, V, d)
  IN {computeAccuracy(p, inst) : p \in Predict(ns, d, inst)}

\* No node with children of the tree is such that its collapse ties with
\* or improves on the accuracy of its subtree on the rows routed to it.
FullyPruned(ns, V) ==
  \A d \in DOMAIN ns :
    HasChildren(ns, d) =>
      \A b \in Accuracies(ns, d, V) :
        \A n \in Accuracies(Detach(ns, d), d, V) : AccuracyLess(n, b)

\* C8: Prune(V) leaves a tree that is fully pruned for V as it is, and a
\* second Prune(V) leaves the result of the first as it is.
C8_PruneIdempotent ==
  /\ (phase \in {"pruned", "repruned"} /\ FullyPruned(orig, using)) => nodes = orig
  /\ phase = "repruned" => nodes = orig

\* ------------------------------------------------------------------------
\* C10
\* ------------------------------------------------------------------------

====
